---- MODULE Spec2Model ----
(***************************************************************************)
(* Model of i2ceeprom.h: eeprom_init, eeprom_write and eeprom_read of the  *)
(* 24CXX driver, driving an I2C master (i2c_start_wait, i2c_write,         *)
(* i2c_readAck, i2c_readNak, i2c_stop) that is attached to an ideal        *)
(* EEPROM: every payload byte is stored at the address the transaction     *)
(* selected, the address pointer auto-incrementing inside the transaction. *)
(* Each action is one call of a bus primitive together with the C control  *)
(* flow (loop tests, counter updates) that leads to the next call.         *)
(***************************************************************************)
EXTENDS Integers, Naturals, Sequences, FiniteSets, TLC

(***************************************************************************)
(* Bounds of the model.                                                    *)
(***************************************************************************)
\* short transfers have 0..MaxLen bytes
MaxLen == 3
\* long transfers have page_size .. page_size + MaxOver bytes
MaxOver == 2
\* a read loop that ran past the caller's buffer is followed this far
MaxOverrun == 2
\* calls made one after the other on the same descriptor ("repeat" runs)
MaxCalls == 2

(***************************************************************************)
(* Program constants.                                                      *)
(***************************************************************************)
\* i2cmaster.h direction flags, added to the device address
I2C_WRITE == 0
I2C_READ == 1
\* EEPROM_ADDRESS of the usage example
EEPROM_ADDRESS == 160

\* the capacity classes eeprom_write and eeprom_read have a branch for
SupportedSizes == {1, 2, 4, 8, 16, 32, 64, 128, 256, 512, 1024}

(***************************************************************************)
(* C integer arithmetic.                                                   *)
(***************************************************************************)
U8(x) == x % 256
U16(x) == x % 65536

RECURSIVE BitOr(_, _)
\* a | b on non-negative integers
BitOr(x, y) ==
    IF x = 0 THEN y
    ELSE IF y = 0 THEN x
    ELSE (IF (x % 2 = 1) \/ (y % 2 = 1) THEN 1 ELSE 0) + 2 * BitOr(x \div 2, y \div 2)

(***************************************************************************)
(* The per-branch constants of eeprom_write / eeprom_read.                 *)
(***************************************************************************)
\* the page modulus and per-transaction payload cap of each branch
PageSize(size) ==
    CASE size \in {1, 2} -> 8
      [] size \in {4, 8, 16} -> 16
      [] size \in {32, 64} -> 32
      [] size \in {128, 256} -> 64
      [] size = 512 -> 128
      [] size = 1024 -> 256
      [] OTHER -> 0

\* mutant: the 8 branch keeps the mask of the 4 branch it was copied from
SelMask_CopiedFrom4(size) ==
    CASE size \in {4, 8} -> 1
      [] size = 16 -> 7
      [] OTHER -> 0

\* the mask applied to (mem_address >> 8) before it is OR-ed into the address
SelMask(size) ==
    CASE size = 4 -> 1
      [] size = 8 -> 3
      [] size = 16 -> 7
      [] OTHER -> 0

\* branches that compute actual_address (4, 8, 16); the others pass
\* a->eeprom_address itself
FoldsBits(size) == size \in {4, 8, 16}

\* branches that send the MSB address byte before the LSB address byte
TwoByte(size) == size \in {32, 64, 128, 256, 512, 1024}

\* the device-select operand of i2c_start_wait, before the direction flag
SelectOperand(size, dev_address, mem) ==
    IF FoldsBits(size)
    THEN U8(BitOr(dev_address, (mem \div 256) % (SelMask(size) + 1)))
    ELSE dev_address

\* the argument of i2c_start_wait(unsigned char)
SelectByte(sel, dir) == U8(sel + dir)

\* eeprom_write: i2c_write((mem_address & 0xFF00) >> 8)
WriteAddrHi(mem) == U8((mem \div 256) % 256)

\* eeprom_write: i2c_write((uint8_t) mem_address + (page * pos_in_page))
WriteAddrLo(size, mem, pos) == U8((mem % 256) + PageSize(size) * pos)

\* mutant: the high byte is masked but not shifted down before the cast
ReadAddrHi_NoShift(mem) == U8(256 * ((mem \div 256) % 256))

\* mutant: the read-mode open uses a->eeprom_address in every branch
ReadSelect_DeviceAddress(size, actual, dev_address) == dev_address

\* eeprom_read: the select operand of the read-mode open, actual_address in
\* the branches that computed it, a->eeprom_address in the others
ReadSelect(size, actual, dev_address) ==
    IF FoldsBits(size) THEN actual ELSE dev_address

\* eeprom_read: the MSB and LSB (or single) address bytes
ReadAddrHi(mem) == U8((mem \div 256) % 256)
ReadAddrLo(size, mem, nread) ==
    IF size = 8 THEN U8((mem % 256) + nread) ELSE U8(mem % 256)

\* the type of the page loop counter i: uint16_t in the 1024 branch,
\* uint8_t in the others
LoopCounter(size, x) == IF size = 1024 THEN U16(x) ELSE U8(x)

\* mutant: the page loop runs one position past the page end
PageLoopTest_Inclusive(size, ii, nwritten, n) == ii <= PageSize(size) /\ nwritten < n

\* for (...; (i < page) && (bytes_written < datasize); ...)
PageLoopTest(size, ii, nwritten, n) == ii < PageSize(size) /\ nwritten < n

\* mutant: the chunk loop runs once more when everything is written
ChunkLoopTest_Inclusive(nwritten, n) == nwritten <= n

\* while (bytes_written < datasize)
ChunkLoopTest(nwritten, n) == nwritten < n

\* mutant: the loop bound is datasize instead of datasize - 1
ReadLoopTest_NoMinusOne(nread, n, bits) == nread < n

\* while (bytes_read < datasize - 1): with a 16-bit int both operands are
\* unsigned int and datasize - 1 wraps; with a wider int both are int
ReadLoopTest(nread, n, bits) ==
    IF bits = 16 THEN nread < U16(n - 1 + 65536) ELSE nread < n - 1

(***************************************************************************)
(* Inputs.                                                                 *)
(***************************************************************************)
\* sizes handed to eeprom_init: every supported class and one without a branch
Sizes == SupportedSizes \cup {3}

\* <<dev_address, size>> handed to eeprom_init: the usage example's 0xA0 with
\* every size, and 0xA6 (E2 = E1 = 1) with the sizes that fold address bits
\* into the device address and with one that does not
Devices ==
    ({EEPROM_ADDRESS} \X Sizes) \cup ({EEPROM_ADDRESS + 6} \X {4, 8, 16, 32})

\* the build's width of int: 16 on AVR, 32 on a wider host
IntWidths == {16, 32}

\* start offsets: page starts, page ends, folded-bit and two-byte offsets
Offsets(size) ==
    LET P == PageSize(size)
    IN  {0, 10, 255, 1234} \cup (IF P > 0 THEN {P - 1, 256 + P - 1, 768 + P + 1} ELSE {})

\* transfer lengths
Lengths(size) ==
    LET P == PageSize(size)
    IN  (0..MaxLen) \cup (IF P > 0 THEN P..(P + MaxOver) ELSE {})

\* the two scenarios of the specification: <<offset, length>>
Scenarios(size) ==
    CASE size = 8 -> {<<10, 20>>}
      [] size = 1024 -> {<<0, 300>>}
      [] OTHER -> {}

\* short transfers from every offset, long ones from a page start, from inside
\* a page and from a page end
CallArgs(size) ==
    LET P == PageSize(size)
    IN  (Offsets(size) \X (0..MaxLen))
          \cup ((IF P > 0 THEN {0, 10, P - 1} ELSE {}) \X Lengths(size))
          \cup Scenarios(size)

\* "repeat" runs: one and two bytes from offset 0 and from a page end above
\* offset 255
RepeatArgs(size) ==
    LET P == PageSize(size)
    IN  {0, 256 + (IF P > 0 THEN P - 1 ELSE 1)} \X {1, 2}

\* the caller's payload: n bytes, neighbours distinct, none the erased 0xFF
Payload(n) == [k \in 1..n |-> ((k - 1) % 251) + 1]

\* content of a buffer cell, or of an EEPROM cell, nobody wrote yet
Unset == -1

(***************************************************************************)
(* State.                                                                  *)
(***************************************************************************)
VARIABLES
    a,               \* the eeprom struct: eeprom_address, eeprom_size
    i2c_up,          \* i2c_init() was called
    int_bits,        \* width of int of the build
    env,             \* "ideal": every i2c_write is acknowledged; "lossy": it may
                     \* return 1 (not acknowledged); "repeat": ideal bus,
                     \* calls in any order on the same descriptor
    ncalls,          \* calls that returned
    seen,            \* "repeat" runs: <<function, mem_address, datasize>> -> the
                     \* bus primitives of the first call with these arguments
    failed,          \* an i2c_write of the running call returned 1
    after_fail,      \* a payload byte was sent after an i2c_write returned 1
    ret,             \* what the returned call handed to its caller
    pc,              \* position in eeprom_write / eeprom_read
    hist,            \* "fresh", "written" (a write returned), "read"
    last,            \* <<mem_address, datasize, data>> of the write that returned
    mem_address, data, datasize,          \* arguments of the running call
    actual_address, pos_in_page, bytes_written, pages_written, i,
    bytes_read,
    overrun,         \* indices eeprom_read stored to beyond data[datasize - 1]
    stored,          \* the indices eeprom_read stored to, in order
    bus,             \* the bus primitives called by the running call, in order
    bus_open,        \* a start was issued and no stop since
    dev_mem,         \* EEPROM cells written: address -> byte
    dev_ptr,         \* the EEPROM's address pointer
    dev_acnt         \* address bytes received in the open write transaction

vars == <<a, i2c_up, int_bits, env, ncalls, seen, failed, after_fail, ret, pc, hist, last, mem_address, data, datasize,
          actual_address, pos_in_page, bytes_written, pages_written, i,
          bytes_read, overrun, stored, bus, bus_open, dev_mem, dev_ptr, dev_acnt>>

descr == <<a, i2c_up, int_bits, env>>
harn == <<ret, ncalls, seen>>
nack == <<failed, after_fail>>
cargs == <<mem_address, data, datasize>>
wloc == <<actual_address, pos_in_page, bytes_written, pages_written, i>>
rloc == <<bytes_read, overrun, stored>>
devv == <<dev_mem, dev_ptr, dev_acnt>>

Event(op, v, dir) == [op |-> op, v |-> v, dir |-> dir]

(***************************************************************************)
(* The I2C master and the ideal EEPROM behind it.                          *)
(***************************************************************************)
\* the size of the space the address bytes and folded bits can select
AddrSpace(size) == IF TwoByte(size) THEN 65536 ELSE 256 * (SelMask(size) + 1)

\* i2c_start_wait(sel + dir): opens a transaction; the folded bits of the
\* select operand replace the high part of the pointer
BusStart(sel, dir) ==
    /\ bus' = Append(bus, Event("start", SelectByte(sel, dir), dir))
    /\ bus_open' = TRUE
    /\ dev_acnt' = IF dir = I2C_WRITE THEN 0 ELSE dev_acnt
    /\ dev_ptr' = IF TwoByte(a.eeprom_size)
                  THEN dev_ptr
                  ELSE 256 * (sel % (SelMask(a.eeprom_size) + 1)) + (dev_ptr % 256)
    /\ UNCHANGED <<dev_mem, nack>>

\* the values i2c_write can return: 0 (acknowledged), 1 (not acknowledged)
WriteReturns == IF env = "lossy" THEN {0, 1} ELSE {0}

\* i2c_write(b): the first one or two bytes of a write transaction set the
\* pointer, every later byte is stored at the pointer, which then advances;
\* the caller drops the return value
BusWrite(b, op) ==
    /\ bus' = Append(bus, Event(op, b, 0))
    /\ UNCHANGED bus_open
    /\ \E rv \in WriteReturns : failed' = (failed \/ rv = 1)
    /\ after_fail' = (after_fail \/ (failed /\ op = "data"))
    /\ IF TwoByte(a.eeprom_size) /\ dev_acnt = 0
       THEN /\ dev_ptr' = 256 * b + (dev_ptr % 256)
            /\ dev_acnt' = 1
            /\ UNCHANGED dev_mem
       ELSE IF dev_acnt < (IF TwoByte(a.eeprom_size) THEN 2 ELSE 1)
       THEN /\ dev_ptr' = 256 * (dev_ptr \div 256) + b
            /\ dev_acnt' = dev_acnt + 1
            /\ UNCHANGED dev_mem
       ELSE /\ dev_mem' = [x \in DOMAIN dev_mem \cup {dev_ptr} |->
                              IF x = dev_ptr THEN b ELSE dev_mem[x]]
            /\ dev_ptr' = (dev_ptr + 1) % AddrSpace(a.eeprom_size)
            /\ UNCHANGED dev_acnt

\* the byte i2c_readAck() / i2c_readNak() returns
BusReadValue == IF dev_ptr \in DOMAIN dev_mem THEN dev_mem[dev_ptr] ELSE Unset

BusRead(op) ==
    /\ bus' = Append(bus, Event(op, BusReadValue, 0))
    /\ dev_ptr' = (dev_ptr + 1) % AddrSpace(a.eeprom_size)
    /\ UNCHANGED <<bus_open, dev_mem, dev_acnt, nack>>

\* i2c_stop()
BusStop ==
    /\ bus' = Append(bus, Event("stop", 0, 0))
    /\ bus_open' = FALSE
    /\ UNCHANGED <<devv, nack>>

(***************************************************************************)
(* Initial state and eeprom_init.                                          *)
(***************************************************************************)
\* the state before eeprom_init, in environment e
InitIn(e) ==
    /\ env = e
    /\ failed = FALSE /\ after_fail = FALSE /\ ret = "none"
    /\ ncalls = 0 /\ seen = <<>>
    /\ a = [eeprom_address |-> 0, eeprom_size |-> 0]
    /\ i2c_up = FALSE
    /\ int_bits \in IntWidths
    /\ pc = "new"
    /\ hist = "fresh"
    /\ last = <<>>
    /\ mem_address = 0 /\ data = <<>> /\ datasize = 0
    /\ actual_address = 0 /\ pos_in_page = 0 /\ bytes_written = 0
    /\ pages_written = 0 /\ i = 0
    /\ bytes_read = 0 /\ overrun = {} /\ stored = <<>>
    /\ bus = <<>> /\ bus_open = FALSE
    /\ dev_mem = <<>> /\ dev_ptr = 0 /\ dev_acnt = 0

Init == InitIn("ideal")

eeprom_init(dev_address, size) ==
    /\ pc = "new"
    /\ i2c_up' = TRUE
    /\ a' = [eeprom_address |-> dev_address, eeprom_size |-> size]
    /\ pc' = "idle"
    /\ UNCHANGED <<int_bits, env, harn, nack, hist, last, cargs, wloc, rloc, bus,
                   bus_open, devv>>

(***************************************************************************)
(* eeprom_write.                                                           *)
(***************************************************************************)
\* mutant: the folded bits are OR-ed into a->eeprom_address itself
DescriptorAfterOpen_FoldedIn(d, sel) == [d EXCEPT !.eeprom_address = sel]

\* the eeprom struct after actual_address was computed and the transaction
\* opened: the struct is only read
DescriptorAfterOpen(d, sel) == d

\* uint16_t bytes_written = 0
BytesWrittenAtEntry(previous) == 0

\* the bus primitives of a call without the bytes the device returned
Shape(log) ==
    [k \in DOMAIN log |->
        IF log[k].op \in {"readAck", "readNak"} THEN Event(log[k].op, 0, 0) ELSE log[k]]

\* "repeat" runs remember the primitives of the first call with given arguments
Remember(fn, log) ==
    LET key == <<fn, mem_address, datasize>>
    IN  IF env = "repeat" /\ key \notin DOMAIN seen
        THEN [x \in DOMAIN seen \cup {key} |-> IF x = key THEN Shape(log) ELSE seen[x]]
        ELSE seen

\* entry: the locals are initialised, the branch is selected, pos_in_page is
\* set and the chunk loop is tested for the first time
WriteCall(o, n) ==
    /\ pc = "idle"
    /\ IF env = "repeat" THEN ncalls < MaxCalls ELSE hist = "fresh"
    /\ mem_address' = o /\ datasize' = n /\ data' = Payload(n)
    /\ bytes_written' = BytesWrittenAtEntry(bytes_written) /\ pages_written' = 0
    /\ pos_in_page' = IF a.eeprom_size \in SupportedSizes
                      THEN o % PageSize(a.eeprom_size) ELSE 0
    /\ bus' = <<>>
    /\ pc' = IF a.eeprom_size \in SupportedSizes /\ ChunkLoopTest(bytes_written', n)
             THEN "w_start" ELSE "w_stop"
    /\ failed' = FALSE /\ after_fail' = FALSE /\ ret' = "none"
    /\ UNCHANGED <<descr, ncalls, seen, hist, last, actual_address, i, rloc, bus_open, devv>>

\* i2c_start_wait(... + I2C_WRITE) at the head of a chunk
WriteStart ==
    /\ pc = "w_start"
    /\ LET sel == SelectOperand(a.eeprom_size, a.eeprom_address, mem_address)
       IN  /\ actual_address' = IF FoldsBits(a.eeprom_size) THEN sel ELSE actual_address
           /\ BusStart(sel, I2C_WRITE)
           /\ a' = DescriptorAfterOpen(a, sel)
    /\ pc' = IF TwoByte(a.eeprom_size) THEN "w_addr_hi" ELSE "w_addr"
    /\ UNCHANGED <<i2c_up, int_bits, env, harn, hist, last, cargs, pos_in_page,
                   bytes_written, pages_written, i, rloc>>

\* i2c_write of the MSB address byte (branches 32 .. 1024)
WriteAddrMsb ==
    /\ pc = "w_addr_hi"
    /\ BusWrite(WriteAddrHi(mem_address), "addr")
    /\ pc' = "w_addr"
    /\ UNCHANGED <<descr, harn, hist, last, cargs, wloc, rloc>>

\* mutant: the index is incremented before the byte is fetched
PayloadByte_PreIncrement(d, nwritten) ==
    d[IF nwritten + 2 <= Len(d) THEN nwritten + 2 ELSE Len(d)]

\* *(data + bytes_written)
PayloadByte(d, nwritten) == d[nwritten + 1]

\* where the chunk loop goes when the page loop ends
AfterPage(nwritten) == IF ChunkLoopTest(nwritten, datasize) THEN "w_start" ELSE "w_stop"

\* i2c_write of the (LSB) address byte, then the page loop is entered:
\* i = pos_in_page and its first test
WriteAddrLsb ==
    /\ pc = "w_addr"
    /\ BusWrite(WriteAddrLo(a.eeprom_size, mem_address, pos_in_page), "addr")
    /\ i' = LoopCounter(a.eeprom_size, pos_in_page)
    /\ IF PageLoopTest(a.eeprom_size, i', bytes_written, datasize)
       THEN /\ pc' = "w_data"
            /\ UNCHANGED <<pos_in_page, pages_written>>
       ELSE /\ pages_written' = U16(pages_written + 1)
            /\ pos_in_page' = 0
            /\ pc' = AfterPage(bytes_written)
    /\ UNCHANGED <<descr, harn, hist, last, cargs, actual_address, bytes_written, rloc>>

\* one iteration of the page loop: i2c_write(*(data + bytes_written)),
\* ++bytes_written, ++i, the page loop test and, when it fails, the end of
\* the chunk: ++pages_written, pos_in_page = 0 and the chunk loop test
WriteData ==
    /\ pc = "w_data"
    /\ BusWrite(PayloadByte(data, bytes_written), "data")
    /\ bytes_written' = U16(bytes_written + 1)
    /\ i' = LoopCounter(a.eeprom_size, i + 1)
    /\ IF PageLoopTest(a.eeprom_size, i', bytes_written', datasize)
       THEN /\ pc' = "w_data"
            /\ UNCHANGED <<pos_in_page, pages_written>>
       ELSE /\ pages_written' = U16(pages_written + 1)
            /\ pos_in_page' = 0
            /\ pc' = AfterPage(bytes_written')
    /\ UNCHANGED <<descr, harn, hist, last, cargs, actual_address, rloc>>

\* the i2c_stop() that ends eeprom_write, and the return
WriteStop ==
    /\ pc = "w_stop"
    /\ BusStop
    /\ pc' = "idle"
    /\ hist' = "written"
    /\ last' = <<mem_address, datasize, data>>
    /\ ret' = "void"
    /\ ncalls' = ncalls + 1
    /\ seen' = Remember("eeprom_write", bus')
    /\ UNCHANGED <<descr, cargs, wloc, rloc>>

(***************************************************************************)
(* eeprom_read.                                                            *)
(***************************************************************************)
\* entry; the harness reads back what was written, or reads a fresh device
ReadCall(o, n) ==
    /\ pc = "idle"
    /\ IF env = "repeat" THEN ncalls < MaxCalls
       ELSE /\ hist \in {"fresh", "written"}
            /\ hist = "written" => (o = last[1] /\ n = last[2])
    /\ mem_address' = o /\ datasize' = n /\ data' = [k \in 1..n |-> Unset]
    /\ bytes_read' = 0 /\ overrun' = {} /\ stored' = <<>>
    /\ bus' = <<>>
    /\ pc' = IF a.eeprom_size \in SupportedSizes THEN "r_start_w" ELSE "r_stop"
    /\ failed' = FALSE /\ after_fail' = FALSE /\ ret' = "none"
    /\ UNCHANGED <<descr, ncalls, seen, hist, last, wloc, bus_open, devv>>

\* i2c_start_wait(... + I2C_WRITE): the address-set transaction
ReadStartW ==
    /\ pc = "r_start_w"
    /\ LET sel == SelectOperand(a.eeprom_size, a.eeprom_address, mem_address)
       IN  /\ actual_address' = IF FoldsBits(a.eeprom_size) THEN sel ELSE actual_address
           /\ BusStart(sel, I2C_WRITE)
           /\ a' = DescriptorAfterOpen(a, sel)
    /\ pc' = IF TwoByte(a.eeprom_size) THEN "r_addr_hi" ELSE "r_addr"
    /\ UNCHANGED <<i2c_up, int_bits, env, harn, hist, last, cargs, pos_in_page,
                   bytes_written, pages_written, i, rloc>>

ReadAddrMsb ==
    /\ pc = "r_addr_hi"
    /\ BusWrite(ReadAddrHi(mem_address), "addr")
    /\ pc' = "r_addr"
    /\ UNCHANGED <<descr, harn, hist, last, cargs, wloc, rloc>>

ReadAddrLsb ==
    /\ pc = "r_addr"
    /\ BusWrite(ReadAddrLo(a.eeprom_size, mem_address, bytes_read), "addr")
    /\ pc' = "r_stop1"
    /\ UNCHANGED <<descr, harn, hist, last, cargs, wloc, rloc>>

\* the i2c_stop() after the address byte(s)
ReadStopAddr ==
    /\ pc = "r_stop1"
    /\ BusStop
    /\ pc' = "r_start_r"
    /\ UNCHANGED <<descr, harn, hist, last, cargs, wloc, rloc>>

\* i2c_start_wait(... + I2C_READ) and the first test of the read loop
ReadStartR ==
    /\ pc = "r_start_r"
    /\ BusStart(ReadSelect(a.eeprom_size, actual_address, a.eeprom_address), I2C_READ)
    /\ pc' = IF ReadLoopTest(bytes_read, datasize, int_bits) THEN "r_ack" ELSE "r_nak"
    /\ UNCHANGED <<descr, harn, hist, last, cargs, wloc, rloc>>

\* *(data + k) = v: inside the caller's buffer, or beyond its end
StoreAt(k, v) ==
    /\ stored' = Append(stored, k)
    /\ IF k < Len(data)
       THEN /\ data' = [data EXCEPT ![k + 1] = v]
            /\ UNCHANGED overrun
       ELSE /\ overrun' = overrun \cup {k}
            /\ UNCHANGED data

\* mutant: the index is advanced before the store
Store_IndexAhead(k, v) == StoreAt(k + 1, v)

\* *(data + bytes_read) = v
Store(k, v) == StoreAt(k, v)

\* one iteration of the read loop: *(data + bytes_read) = i2c_readAck(),
\* ++bytes_read and the loop test
ReadAck ==
    /\ pc = "r_ack"
    /\ bytes_read < datasize + MaxOverrun
    /\ Store(bytes_read, BusReadValue)
    /\ BusRead("readAck")
    /\ bytes_read' = U16(bytes_read + 1)
    /\ pc' = IF ReadLoopTest(bytes_read', datasize, int_bits) THEN "r_ack" ELSE "r_nak"
    /\ UNCHANGED <<descr, harn, hist, last, mem_address, datasize, wloc>>

\* *(data + bytes_read) = i2c_readNak()
ReadNak ==
    /\ pc = "r_nak"
    /\ Store(bytes_read, BusReadValue)
    /\ BusRead("readNak")
    /\ pc' = "r_stop"
    /\ UNCHANGED <<descr, harn, hist, last, mem_address, datasize, wloc, bytes_read>>

\* the i2c_stop() that ends eeprom_read, and the return
ReadStop ==
    /\ pc = "r_stop"
    /\ BusStop
    /\ pc' = "idle"
    /\ hist' = "read"
    /\ ret' = "void"
    /\ ncalls' = ncalls + 1
    /\ seen' = Remember("eeprom_read", bus')
    /\ UNCHANGED <<descr, last, cargs, wloc, rloc>>

(***************************************************************************)
(* The specification.                                                      *)
(***************************************************************************)
Construct == \E d \in Devices : eeprom_init(d[1], d[2])
\* the <<offset, length>> pairs the caller may pass
Args == IF env = "repeat" THEN RepeatArgs(a.eeprom_size) ELSE CallArgs(a.eeprom_size)
CallWrite == \E c \in Args : WriteCall(c[1], c[2])
CallRead == \E c \in Args : ReadCall(c[1], c[2])

Next ==
    \/ Construct
    \/ CallWrite
    \/ WriteStart
    \/ WriteAddrMsb
    \/ WriteAddrLsb
    \/ WriteData
    \/ WriteStop
    \/ CallRead
    \/ ReadStartW
    \/ ReadAddrMsb
    \/ ReadAddrLsb
    \/ ReadStopAddr
    \/ ReadStartR
    \/ ReadAck
    \/ ReadNak
    \/ ReadStop

Spec == Init /\ [][Next]_vars

\* every bus primitive returns: a call that can take a step takes it
FairSpec == Spec /\ WF_vars(Next)

\* calls in any order, up to MaxCalls of them, on the same descriptor
InitRepeat == InitIn("repeat")
SpecRepeat == InitRepeat /\ [][Next]_vars

\* the same driver on a bus whose i2c_write may report a failure
InitLossy == InitIn("lossy")
SpecLossy == InitLossy /\ [][Next]_vars

(***************************************************************************)
(* Reading the bus log of the running (or just returned) call.             *)
(***************************************************************************)
InWrite == pc \in {"w_start", "w_addr_hi", "w_addr", "w_data", "w_stop"}
              \/ (pc = "idle" /\ hist = "written")
InRead == pc \in {"r_start_w", "r_addr_hi", "r_addr", "r_stop1", "r_start_r",
                  "r_ack", "r_nak", "r_stop"}
              \/ (pc = "idle" /\ hist = "read")
WriteDone == pc = "idle" /\ hist = "written"
ReadDone == pc = "idle" /\ hist = "read"
Supported == a.eeprom_size \in SupportedSizes

\* positions of the transaction opens
Starts == {k \in DOMAIN bus : bus[k].op = "start"}
\* the events of kind op, in order
Only(ops) == SelectSeq(bus, LAMBDA e : e.op \in ops)
\* last position of the transaction opened at s
TxEnd(s) ==
    LET later == {k \in Starts : k > s}
    IN  IF later = {} THEN Len(bus)
        ELSE (CHOOSE k \in later : \A m \in later : k <= m) - 1
\* payload bytes emitted in the transaction opened at s, and before it
TxCount(s) == Cardinality({k \in s..TxEnd(s) : bus[k].op = "data"})
DataBefore(s) == Cardinality({k \in 1..s : bus[k].op = "data"})
\* the transaction opened at s has emitted all its address bytes
AddrBytes == IF TwoByte(a.eeprom_size) THEN 2 ELSE 1
TxAddressed(s) ==
    /\ Len(bus) >= s + AddrBytes
    /\ \A k \in (s + 1)..(s + AddrBytes) : bus[k].op = "addr"
\* the memory address emitted in the address byte(s) of the transaction at s
TxAddr(s) == IF TwoByte(a.eeprom_size) THEN 256 * bus[s + 1].v + bus[s + 2].v
             ELSE bus[s + 1].v
\* the address the transaction at s selects: folded select-byte bits (as the
\* driver places them) above the one address byte, or the two address bytes
TxSelected(s) ==
    IF TwoByte(a.eeprom_size) THEN TxAddr(s)
    ELSE 256 * ((bus[s].v - bus[s].dir) % (SelMask(a.eeprom_size) + 1)) + TxAddr(s)

(***************************************************************************)
(* C1: round trip.  Writing p at o and then reading Len(p) bytes from o    *)
(* returns p, for every supported class and 1 <= Len(p) <= 4 * page_size.  *)
(***************************************************************************)
C1_RoundTrip ==
    (ReadDone /\ last # <<>> /\ Supported
        /\ datasize >= 1 /\ datasize <= 4 * PageSize(a.eeprom_size))
    => data = last[3]

(***************************************************************************)
(* C2: every write transaction of eeprom_write addresses the logical       *)
(* offset start_offset + (payload bytes emitted in earlier transactions).  *)
(***************************************************************************)
C2_TxAddressesNextOffset ==
    (InWrite /\ Supported) =>
        \A s \in Starts :
            TxAddressed(s) =>
                TxSelected(s) = (mem_address + DataBefore(s)) % AddrSpace(a.eeprom_size)

(***************************************************************************)
(* C3: no write transaction crosses a page boundary: with A the emitted    *)
(* memory address and k the payload bytes of the transaction,              *)
(* (A mod page_size) + k <= page_size.                                     *)
(***************************************************************************)
C3_NoPageCrossing ==
    (InWrite /\ Supported) =>
        \A s \in Starts :
            TxAddressed(s) =>
                (TxAddr(s) % PageSize(a.eeprom_size)) + TxCount(s) <= PageSize(a.eeprom_size)

(***************************************************************************)
(* C4: a write whose range crosses exactly one page boundary issues        *)
(* exactly two write opens; the first carries page_size - (o mod           *)
(* page_size) payload bytes, the second the remaining ones.                *)
(***************************************************************************)
FirstStart == CHOOSE k \in Starts : \A m \in Starts : k <= m
LastStart == CHOOSE k \in Starts : \A m \in Starts : k >= m
\* bytes from mem_address to the end of its page
ToPageEnd == PageSize(a.eeprom_size) - (mem_address % PageSize(a.eeprom_size))
CrossesOneBoundary ==
    /\ 0 < ToPageEnd
    /\ ToPageEnd < datasize
    /\ datasize <= ToPageEnd + PageSize(a.eeprom_size)

C4_OneBoundaryTwoOpens ==
    (WriteDone /\ Supported /\ CrossesOneBoundary) =>
        /\ Cardinality(Starts) = 2
        /\ TxCount(FirstStart) = ToPageEnd
        /\ TxCount(LastStart) = datasize - ToPageEnd

C4_Witness ==
    /\ WriteDone /\ Supported /\ CrossesOneBoundary
    /\ a.eeprom_size = 512
    /\ TxCount(FirstStart) = 1 /\ TxCount(LastStart) = 128

(***************************************************************************)
(* C5: over all its transactions eeprom_write emits exactly the payload    *)
(* bytes data[0], ..., data[n-1], each once and in that order.             *)
(***************************************************************************)
\* the payload bytes emitted so far, in order
Emitted == LET d == Only({"data"}) IN [k \in DOMAIN d |-> d[k].v]

C5_PayloadInOrder ==
    (InWrite /\ Supported) =>
        LET sent == Emitted
        IN  /\ sent = SubSeq(data, 1, bytes_written)
            /\ WriteDone => sent = data

C5_Witness ==
    /\ WriteDone /\ Supported
    /\ Cardinality(Starts) = 3
    /\ Len(Emitted) = datasize /\ datasize > PageSize(a.eeprom_size)

(***************************************************************************)
(* C6: open/close pairing.  In every call each open is followed by a close *)
(* before the next open and before the return, no close is issued while no *)
(* transaction is open, and the bus is idle when the call returns.         *)
(***************************************************************************)
C6_OpenClosePairing ==
    (InWrite \/ InRead) =>
        LET f == Only({"start", "stop"})
        IN  /\ \A k \in DOMAIN f : f[k].op = IF k % 2 = 1 THEN "start" ELSE "stop"
            /\ (WriteDone \/ ReadDone) => (~bus_open /\ Len(f) % 2 = 0)

(***************************************************************************)
(* C7: for count >= 1 eeprom_read performs exactly count byte reads after  *)
(* the read-mode open: count - 1 acknowledged ones, then one               *)
(* non-acknowledged one, and none after it.                                *)
(***************************************************************************)
C7_AckThenNak ==
    (InRead /\ Supported /\ datasize >= 1) =>
        LET r == Only({"readAck", "readNak"})
            reads == {k \in DOMAIN bus : bus[k].op \in {"readAck", "readNak"}}
            open == LastStart
        IN  /\ Len(r) <= datasize
            /\ \A k \in DOMAIN r : (r[k].op = "readNak") <=> (k = datasize)
            /\ ReadDone => Len(r) = datasize
            /\ reads # {} =>
                   /\ Starts # {}
                   /\ bus[open].dir = I2C_READ
                   /\ \A k \in reads : open < k

C7_Witness ==
    /\ ReadDone /\ Supported /\ datasize >= 3
    /\ Len(Only({"readAck"})) = datasize - 1
    /\ bus[Len(bus) - 1].op = "readNak"

C9_ReadZeroNoTransaction ==
    (InRead /\ datasize = 0) =>
        /\ Only({"start", "readAck", "readNak"}) = <<>>
        /\ overrun = {}
        /\ data = <<>>

(***************************************************************************)
(* C10: a write of length 0 calls no bus primitive at all: no open, no     *)
(* address byte, no payload byte, no stop.                                 *)
(***************************************************************************)
C10_WriteZeroNoPrimitive ==
    (InWrite /\ datasize = 0) => bus = <<>>

(***************************************************************************)
(* C11: with a capacity class outside the supported set eeprom_write and   *)
(* eeprom_read are a no-op: they call no bus primitive (no open, no byte,  *)
(* no stop) and eeprom_read leaves the caller's buffer unchanged.          *)
(***************************************************************************)
C11_UnsupportedIsNoOp ==
    ((InWrite \/ InRead) /\ ~Supported) =>
        /\ bus = <<>>
        /\ InRead => (overrun = {} /\ \A k \in DOMAIN data : data[k] = Unset)

(***************************************************************************)
(* C12: eeprom_init with an unsupported capacity fails at construction, so *)
(* no descriptor with an unsupported capacity class ever exists for        *)
(* eeprom_write or eeprom_read to be called with.                          *)
(***************************************************************************)
C12_UnsupportedRejectedAtInit ==
    pc # "new" => a.eeprom_size \in SupportedSizes

(***************************************************************************)
(* C14: select-byte layout of the header comment.  Bit 0 of every select   *)
(* byte carries only the R/W flag and the folded address bits sit directly *)
(* above it (A8 in bit 1, A9 in bit 2, A10 in bit 3); so with a base       *)
(* address whose low four bits are 0 every write-mode open has bit 0 =     *)
(* write, the read-mode open has bit 0 = read, and both carry the address  *)
(* bits of start_offset.                                                   *)
(***************************************************************************)
C14_SelectByteLayout ==
    LET size == a.eeprom_size
        N == CASE size = 4 -> 1
               [] size = 8 -> 2
               [] size = 16 -> 3
               [] OTHER -> 0
    IN  ((InWrite \/ InRead) /\ Supported /\ a.eeprom_address % 16 = 0) =>
            \A s \in Starts :
                /\ bus[s].v % 2 = bus[s].dir
                /\ (bus[s].v \div 2) % (2 ^ N) = (mem_address \div 256) % (2 ^ N)

(***************************************************************************)
(* C15: for count >= 1 eeprom_read issues exactly: one write-mode open,    *)
(* the address byte(s), a stop, one read-mode open with the same select    *)
(* base, count byte reads, a final stop; 2 opens and 2 stops per call,     *)
(* whatever count is and whatever page boundaries the range contains.      *)
(***************************************************************************)
C15_ReadEventSequence ==
    LET n == datasize
        A == IF a.eeprom_size \in {32, 64, 128, 256, 512, 1024} THEN 2 ELSE 1
        Expected(k) ==
            CASE k = 1 -> "start"
              [] k > 1 /\ k <= 1 + A -> "addr"
              [] k = 2 + A -> "stop"
              [] k = 3 + A -> "start"
              [] k > 3 + A /\ k < 3 + A + n -> "readAck"
              [] k = 3 + A + n -> "readNak"
              [] k = 4 + A + n -> "stop"
              [] OTHER -> "none"
    IN  (InRead /\ Supported /\ n >= 1) =>
            /\ \A k \in DOMAIN bus : bus[k].op = Expected(k)
            /\ Len(bus) >= 1 => bus[1].dir = I2C_WRITE
            /\ Len(bus) >= 3 + A =>
                   /\ bus[3 + A].dir = I2C_READ
                   /\ bus[3 + A].v - I2C_READ = bus[1].v - I2C_WRITE
            /\ ReadDone => Len(bus) = 4 + A + n

C15_Witness ==
    /\ ReadDone /\ a.eeprom_size = 4
    /\ mem_address = 271 /\ datasize = 3
    /\ Cardinality(Starts) = 2
    /\ Len(Only({"stop"})) = 2
    /\ bus[4].v = EEPROM_ADDRESS + 2

(***************************************************************************)
(* C16: address bytes.  Classes 32..1024 emit exactly two address bytes,   *)
(* high byte first, in every write-mode transaction of eeprom_write and    *)
(* eeprom_read, before any payload byte or byte read; classes 1..16 emit   *)
(* exactly one.  In eeprom_read the address is the unmodified              *)
(* start_offset: start_offset >> 8 then start_offset AND 0xFF, or the      *)
(* single byte start_offset AND 0xFF.                                      *)
(***************************************************************************)
C16_AddressBytes ==
    LET two == a.eeprom_size \in {32, 64, 128, 256, 512, 1024}
        A == IF two THEN 2 ELSE 1
        opens == {s \in Starts : bus[s].dir = I2C_WRITE}
    IN  ((InWrite \/ InRead) /\ Supported) =>
            /\ \A s \in opens :
                   /\ \A k \in (s + 1)..(s + A) : k <= Len(bus) => bus[k].op = "addr"
                   /\ s + A + 1 <= Len(bus) => bus[s + A + 1].op # "addr"
                   /\ (two /\ s + 1 <= Len(bus)) => bus[s + 1].v = mem_address \div 256
                   /\ (InRead /\ s + A <= Len(bus)) => bus[s + A].v = mem_address % 256
            /\ \A k \in DOMAIN bus :
                   bus[k].op = "addr" => \E s \in opens : s < k /\ k <= s + A

C16_Witness ==
    /\ ReadDone /\ a.eeprom_size = 256
    /\ mem_address = 1234 /\ datasize = 2
    /\ bus[2] = Event("addr", 4, 0) /\ bus[3] = Event("addr", 210, 0)
    /\ last # <<>> /\ last[1] = 1234

(***************************************************************************)
(* C18: eeprom_write terminates.  On every entry of the chunk loop the     *)
(* position in the page is below page_size and bytes remain, so every      *)
(* iteration emits at least one payload byte; the page loop counter holds  *)
(* the position without wrapping; bytes_written never exceeds n; the loop  *)
(* exits with bytes_written = n after at most n iterations; and a call     *)
(* that was entered returns.                                               *)
(***************************************************************************)
C18_Progress ==
    LET P == PageSize(a.eeprom_size)
    IN  (InWrite /\ Supported) =>
            /\ bytes_written <= datasize
            /\ pages_written <= bytes_written
            /\ pc = "w_start" => (bytes_written < datasize /\ pos_in_page < P)
            /\ pc = "w_data" =>
                   /\ i < P /\ bytes_written < datasize
                   /\ i = pos_in_page + TxCount(LastStart)
            /\ \A s \in Starts : s # LastStart => TxCount(s) >= 1
            /\ WriteDone =>
                   /\ bytes_written = datasize
                   /\ pages_written = Cardinality(Starts)
                   /\ datasize > 0 => TxCount(LastStart) >= 1

C18_WriteTerminates ==
    /\ []C18_Progress
    /\ (pc \in {"w_start", "w_addr_hi", "w_addr", "w_data", "w_stop"}) ~> WriteDone

C18_Witness ==
    /\ WriteDone /\ a.eeprom_size = 512
    /\ mem_address = 127 /\ datasize = 130
    /\ pages_written = 3 /\ bytes_written = 130

(***************************************************************************)
(* C19: for count >= 1 eeprom_read stores the i-th byte received from the  *)
(* bus into index i of the caller's buffer, i = 0..count-1, writes each of *)
(* these indices exactly once and writes no other index.                   *)
(***************************************************************************)
C19_StoresInOrder ==
    (InRead /\ Supported /\ datasize >= 1) =>
        LET r == Only({"readAck", "readNak"})
        IN  /\ stored = [k \in 1..Len(r) |-> k - 1]
            /\ Len(r) <= datasize
            /\ overrun = {}
            /\ Len(data) = datasize
            /\ \A k \in 1..datasize :
                   data[k] = IF k <= Len(r) THEN r[k].v ELSE Unset
            /\ ReadDone => Len(stored) = datasize

C19_Witness ==
    /\ ReadDone /\ Supported /\ datasize = 3
    /\ stored = <<0, 1, 2>>
    /\ last # <<>> /\ mem_address % PageSize(a.eeprom_size) = 0
    /\ data = <<1, 2, 3>>

(***************************************************************************)
(* C13: transport failures propagate.  Once a bus primitive called by      *)
(* eeprom_write or eeprom_read has reported a failure, the call issues no  *)
(* further payload and the caller receives a failure result: no call       *)
(* returns looking successful after a transport failure.                   *)
(***************************************************************************)
C13_FailurePropagates ==
    /\ failed => ~after_fail
    /\ ((WriteDone \/ ReadDone) /\ failed) => ret = "failure"

(***************************************************************************)
(* C17: the descriptor is immutable after construction: no step of         *)
(* eeprom_write or eeprom_read changes eeprom_address or eeprom_size; and  *)
(* the engine keeps no state between calls: the bus primitives of a call   *)
(* (bytes returned by the device aside) are those of the first call with   *)
(* the same function, offset and length, whatever was called in between.   *)
(***************************************************************************)
C17_SameEventsForSameCall ==
    (env = "repeat" /\ (WriteDone \/ ReadDone)) =>
        LET key == <<IF WriteDone THEN "eeprom_write" ELSE "eeprom_read",
                     mem_address, datasize>>
        IN  key \in DOMAIN seen /\ seen[key] = Shape(bus)

C17_DescriptorImmutable ==
    /\ []C17_SameEventsForSameCall
    /\ [][pc # "new" => a' = a]_vars

C17_Witness ==
    /\ env = "repeat" /\ ncalls = 2 /\ WriteDone
    /\ a.eeprom_size = 16 /\ mem_address = 271 /\ datasize = 2
    /\ Cardinality(DOMAIN seen) = 1
    /\ Cardinality(Starts) = 2

====
